---- MODULE Spec2Model ----
(***************************************************************************)
(* A model of the fluent-logger stream sender (src/src/sender.rs):         *)
(* ConstantDelay (the retry manager), TcpSender::emit, flush_buffer and    *)
(* send_buffer_with_reconnect_once.  UnixSocketSender is the same code     *)
(* over another stream type (sender.rs:204-274) and is covered by the      *)
(* same operators.  The MessagePack frame built by                         *)
(* FluentLogger::log_msgpack_with_timestamp (src/src/logger.rs) is modelled *)
(* at the end.                                                             *)
(*                                                                         *)
(* Time is in milliseconds.  A frame is a sequence of bytes; the k-th      *)
(* frame handed to emit consists of bytes all equal to k, so that the      *)
(* order and the origin of every byte on the stream can be read back.      *)
(***************************************************************************)
EXTENDS Integers, Sequences, FiniteSets, TLC

\* ---------------------------------------------------------------- bounds
\* The buffer capacity, scaled down from the 8 MiB of sender.rs:127.
Capacity == 3
\* The number of emit calls of a behaviour.
MaxEmits == 4
\* The last instant of the monotonic clock.
MaxClock == 100
\* The last instant of the clock when the retry manager is driven alone.
RetryMaxClock == 50
\* The number of emit calls during which the transport may fail, when the
\* recovery of the sender is followed.
LiveOutageCalls == 2
\* The cap of a retry policy stricter than the default one: a history longer
\* than this is one such a policy would give up on.
StrictMaxErrors == 1

\* ------------------------------------------------------ program constants
\* ConstantDelay::new (sender.rs:48, sender.rs:49)
max_errors == 100
wait == 50

\* How far the clock may move in one step: not at all, just short of the
\* retry delay, exactly the retry delay.
Advance == {0, wait - 1, wait}

\* The I/O operations of one emit call are numbered 1..6 (two flushes of at
\* most a write, a dial and a write each); 0 is "no operation".
IoPoints == 0 .. 6

\* What the environment does during one emit call: the blocking I/O of the
\* call takes `elapsed` ms, and just before the call's I/O operation number
\* `at` the peer changes state: an "up" peer goes down, a "down" peer comes
\* up (at = 0: neither happens).
Envs == [at : IoPoints, elapsed : Advance]

VARIABLES
    buffer,         \* TcpSender.buffer: the unsent bytes
    error_records,  \* ConstantDelay.error_records: newest timestamp first
    stream,         \* TcpSender.stream: "open" or "broken"
    peer,           \* the daemon at addr: "up" or "down"
    clock,          \* the monotonic clock Instant::now() reads
    last_sent,      \* the last byte handed to a successful stream write
    emits,          \* the number of emit calls so far
    call            \* the emit call that has just returned: what it was given,
                    \* did and returned (NoCall when the last step was not a call)

vars == <<buffer, error_records, stream, peer, clock, last_sent, emits, call>>

\* ------------------------------------------------------------ ConstantDelay

\* sender.rs:56-58
clear_errors(records) == <<>>

\* sender.rs:60-66: push_front, then pop_back when over max_errors
record_error_untrimmed(records, now) == <<now>> \o records

record_error(records, now) ==
    LET pushed == <<now>> \o records
    IN  IF Len(pushed) > max_errors
        THEN SubSeq(pushed, 1, Len(pushed) - 1)
        ELSE pushed

\* sender.rs:68-73: back() is the last element of the deque, the oldest record
should_retry_newest(records, now) ==
    IF records = <<>>
    THEN TRUE
    ELSE (now - records[1]) >= wait

should_retry(records, now) ==
    IF records = <<>>
    THEN TRUE
    ELSE (now - records[Len(records)]) >= wait

\* ---------------------------------------------------------------- events

\* One entry of the record kept of an emit call.  op is "flush" (flush_buffer
\* entered), "write", "connect", "record_error", "handle_error" or
\* "flush_ret" (flush_buffer returned); buf and hist are the buffer and the
\* error history at that moment, or the arguments of handle_error.
Ev(op, ok, at, err, buf, hist) ==
    [op |-> op, ok |-> ok, at |-> at, err |-> err, buf |-> buf, hist |-> hist]

Log(s, op, ok, at, err, buf) ==
    [s EXCEPT !.trace = Append(@, Ev(op, ok, at, err, buf, s.error_records))]

\* ------------------------------------------------------------- environment

\* The start of a blocking I/O operation: the first one of a call takes the
\* call's elapsed time, and the peer changes state if the environment says so.
\* A peer that goes down breaks the stream connected to it; a peer that comes
\* back does not repair it.
io_begin(s, env) ==
    LET k == s.ops + 1
        t == [s EXCEPT !.ops = k,
                       !.clock = IF k = 1 THEN @ + env.elapsed ELSE @]
    IN  IF env.at # k THEN t
        ELSE IF t.peer = "up"
             THEN [t EXCEPT !.peer = "down", !.stream = "broken"]
             ELSE [t EXCEPT !.peer = "up"]

\* sender.rs:171, sender.rs:152
Instant_now(s) == s.clock

\* sender.rs:134, sender.rs:138: self.stream.write(self.buffer.as_slice())
stream_write(s, env) ==
    LET t == io_begin(s, env)
        ok == t.stream = "open"
        u == [t EXCEPT !.ok = ok,
                       !.written = IF ok THEN @ \o t.buffer ELSE @]
    IN  Log(u, "write", ok, u.clock, "", u.buffer)

\* sender.rs:136: TcpStream::connect(self.addr)
TcpStream_connect(s, env) ==
    LET t == io_begin(s, env)
        ok == t.peer = "up"
        u == [t EXCEPT !.ok = ok,
                       !.new_stream = IF ok THEN "open" ELSE "none"]
    IN  Log(u, "connect", ok, u.clock, "", u.buffer)

\* sender.rs:79, sender.rs:155: the handler observes its arguments
handle_error(s, timestamp, error, unsent_data) ==
    Log(s, "handle_error", FALSE, timestamp, error, unsent_data)

\* ------------------------------------------------------------------ sender

\* sender.rs:133-143
send_buffer_without_reconnect(s, env) == stream_write(s, env)

send_buffer_with_reconnect_twice(s, env) ==
    LET w == stream_write(s, env)
    IN  IF w.ok THEN w
        ELSE LET c == TcpStream_connect(w, env)
                 w2 == stream_write([c EXCEPT !.stream = c.new_stream], env)
             IN  IF ~c.ok THEN c
                 ELSE IF w2.ok THEN w2
                 ELSE LET c2 == TcpStream_connect(w2, env)
                      IN  IF ~c2.ok THEN c2
                          ELSE stream_write([c2 EXCEPT !.stream = c2.new_stream], env)

send_buffer_with_reconnect_once(s, env) ==
    LET w == stream_write(s, env)
    IN  IF w.ok THEN w
        ELSE LET c == TcpStream_connect(w, env)
             IN  IF ~c.ok THEN c
                 ELSE stream_write([c EXCEPT !.stream = c.new_stream], env)

\* flush_buffer's return: the result, and the state it leaves
flush_ret(s, result) ==
    Log([s EXCEPT !.result = result], "flush_ret", result = "Ok", s.clock,
        result, s.buffer)

\* sender.rs:151-157: the Err arm of flush_buffer
flush_failed_entry_reading(r) ==
    LET now == r.trace[1].at
        a == [r EXCEPT !.error_records = record_error(@, now)]
        b == Log(a, "record_error", FALSE, now, "", a.buffer)
        h == handle_error(b, now, "Io", b.buffer)
    IN  flush_ret(h, "Io")

flush_failed_clears(r) ==
    LET now == Instant_now(r)
        a == [r EXCEPT !.error_records = record_error(@, now)]
        b == Log(a, "record_error", FALSE, now, "", a.buffer)
        h == handle_error(b, now, "Io", b.buffer)
    IN  flush_ret([h EXCEPT !.buffer = <<>>], "Io")

flush_failed_unrecorded(r) ==
    LET now == Instant_now(r)
        h == handle_error(r, now, "Io", r.buffer)
    IN  flush_ret(h, "Io")

flush_failed(r) ==
    LET now == Instant_now(r)
        a == [r EXCEPT !.error_records = record_error(@, now)]
        b == Log(a, "record_error", FALSE, now, "", a.buffer)
        h == handle_error(b, now, "Io", b.buffer)
    IN  flush_ret(h, "Io")

\* sender.rs:158-162: the Ok arm of flush_buffer
flush_succeeded_keeps_errors(r) ==
    flush_ret([r EXCEPT !.buffer = <<>>], "Ok")

flush_succeeded(r) ==
    flush_ret([r EXCEPT !.buffer = <<>>,
                        !.error_records = clear_errors(@)], "Ok")

\* sender.rs:145-165
flush_buffer(s, env) ==
    LET f == Log(s, "flush", TRUE, s.clock, "", s.buffer)
    IN  IF f.buffer = <<>>
        THEN flush_ret([f EXCEPT !.error_records = clear_errors(@)], "Ok")
        ELSE LET r == send_buffer_with_reconnect_once(f, env)
             IN  IF ~r.ok THEN flush_failed(r) ELSE flush_succeeded(r)

\* sender.rs:183: self.buffer.extend_from_slice(data)
extend_from_slice_at_front(buf, data) == data \o buf

extend_from_slice(buf, data) == buf \o data

\* sender.rs:169-189
emit_capacity_only(s, data, env) ==
    LET now == Instant_now(s)
        first == Len(s.buffer) + Len(data) > Capacity
                     /\ should_retry(s.error_records, now)
        s1 == IF first THEN flush_buffer(s, env) ELSE s
    IN  IF first /\ s1.result # "Ok"
        THEN s1
        ELSE IF Len(data) > Capacity
        THEN [s1 EXCEPT !.result = "TooLargeData"]
        ELSE LET s2 == [s1 EXCEPT !.buffer = extend_from_slice(@, data),
                                  !.appended = TRUE]
             IN  IF should_retry(s2.error_records, now)
                 THEN flush_buffer(s2, env)
                 ELSE [s2 EXCEPT !.result = "Ok"]

emit_swallows_flush_error(s, data, env) ==
    LET now == Instant_now(s)
        first == Len(s.buffer) + Len(data) > Capacity
                     /\ should_retry(s.error_records, now)
        s1 == IF first THEN flush_buffer(s, env) ELSE s
    IN  IF Len(data) > Capacity - Len(s1.buffer)
        THEN [s1 EXCEPT !.result = "TooLargeData"]
        ELSE LET s2 == [s1 EXCEPT !.buffer = extend_from_slice(@, data),
                                  !.appended = TRUE]
             IN  IF should_retry(s2.error_records, now)
                 THEN flush_buffer(s2, env)
                 ELSE [s2 EXCEPT !.result = "Ok"]

emit_ungated_first_flush(s, data, env) ==
    LET now == Instant_now(s)
        first == Len(s.buffer) + Len(data) > Capacity
        s1 == IF first THEN flush_buffer(s, env) ELSE s
    IN  IF first /\ s1.result # "Ok"
        THEN s1
        ELSE IF Len(data) > Capacity - Len(s1.buffer)
        THEN [s1 EXCEPT !.result = "TooLargeData"]
        ELSE LET s2 == [s1 EXCEPT !.buffer = extend_from_slice(@, data),
                                  !.appended = TRUE]
             IN  IF should_retry(s2.error_records, now)
                 THEN flush_buffer(s2, env)
                 ELSE [s2 EXCEPT !.result = "Ok"]

emit_always_flushes(s, data, env) ==
    LET now == Instant_now(s)
        first == Len(s.buffer) + Len(data) > Capacity
                     /\ should_retry(s.error_records, now)
        s1 == IF first THEN flush_buffer(s, env) ELSE s
    IN  IF first /\ s1.result # "Ok"
        THEN s1
        ELSE IF Len(data) > Capacity - Len(s1.buffer)
        THEN [s1 EXCEPT !.result = "TooLargeData"]
        ELSE LET s2 == [s1 EXCEPT !.buffer = extend_from_slice(@, data),
                                  !.appended = TRUE]
             IN  IF TRUE
                 THEN flush_buffer(s2, env)
                 ELSE [s2 EXCEPT !.result = "Ok"]

emit_rolls_back(s, data, env) ==
    LET now == Instant_now(s)
        first == Len(s.buffer) + Len(data) > Capacity
                     /\ should_retry(s.error_records, now)
        s1 == IF first THEN flush_buffer(s, env) ELSE s
    IN  IF first /\ s1.result # "Ok"
        THEN s1
        ELSE IF Len(data) > Capacity - Len(s1.buffer)
        THEN [s1 EXCEPT !.result = "TooLargeData"]
        ELSE LET s2 == [s1 EXCEPT !.buffer = extend_from_slice(@, data),
                                  !.appended = TRUE]
                 s3 == flush_buffer(s2, env)
             IN  IF should_retry(s2.error_records, now)
                 THEN IF s3.result = "Ok" THEN s3
                      ELSE [s3 EXCEPT !.buffer = s1.buffer, !.appended = FALSE]
                 ELSE [s2 EXCEPT !.result = "Ok"]

emit_gives_up(s, data, env) ==
    IF Len(s.error_records) > StrictMaxErrors
    THEN [handle_error(s, Instant_now(s), "RetryAttemptsExceeded", s.buffer)
              EXCEPT !.result = "RetryAttemptsExceeded"]
    ELSE
    LET now == Instant_now(s)
        first == Len(s.buffer) + Len(data) > Capacity
                     /\ should_retry(s.error_records, now)
        s1 == IF first THEN flush_buffer(s, env) ELSE s
    IN  IF first /\ s1.result # "Ok"
        THEN s1
        ELSE IF Len(data) > Capacity - Len(s1.buffer)
        THEN [s1 EXCEPT !.result = "TooLargeData"]
        ELSE LET s2 == [s1 EXCEPT !.buffer = extend_from_slice(@, data),
                                  !.appended = TRUE]
             IN  IF should_retry(s2.error_records, now)
                 THEN flush_buffer(s2, env)
                 ELSE [s2 EXCEPT !.result = "Ok"]

emit(s, data, env) ==
    LET now == Instant_now(s)
        first == Len(s.buffer) + Len(data) > Capacity
                     /\ should_retry(s.error_records, now)
        s1 == IF first THEN flush_buffer(s, env) ELSE s
    IN  IF first /\ s1.result # "Ok"
        THEN s1
        ELSE IF Len(data) > Capacity - Len(s1.buffer)
        THEN [s1 EXCEPT !.result = "TooLargeData"]
        ELSE LET s2 == [s1 EXCEPT !.buffer = extend_from_slice(@, data),
                                  !.appended = TRUE]
             IN  IF should_retry(s2.error_records, now)
                 THEN flush_buffer(s2, env)
                 ELSE [s2 EXCEPT !.result = "Ok"]

\* ------------------------------------------------------------ state machine

\* The sender and its surroundings at the entry of an emit call.
Entry ==
    [buffer |-> buffer, error_records |-> error_records, stream |-> stream,
     peer |-> peer, clock |-> clock, written |-> <<>>, appended |-> FALSE,
     trace |-> <<>>, ops |-> 0, ok |-> TRUE, new_stream |-> "none",
     result |-> "Ok"]

NoCall ==
    [n |-> 0, data |-> <<>>, now |-> 0, verdict |-> TRUE, buffer0 |-> <<>>,
     errors0 |-> <<>>, last_sent0 |-> 0, peer0 |-> "up", stream0 |-> "open",
     result |-> "Ok", trace |-> <<>>, written |-> <<>>, appended |-> FALSE]

\* TcpSender::new (sender.rs:121-131) connected the stream; ConstantDelay::new
\* (sender.rs:45-51) starts with no error recorded.
Init ==
    /\ buffer = <<>>
    /\ error_records = <<>>
    /\ stream = "open"
    /\ peer = "up"
    /\ clock = 0
    /\ last_sent = 0
    /\ emits = 0
    /\ call = NoCall

\* One call of Sender::emit with a frame of n bytes.  The frame and the
\* outcome of the call are bound by \E over a singleton so that each is
\* computed once per step.
Emit ==
    /\ emits < MaxEmits
    /\ \E n \in 0 .. (Capacity + 1), env \in Envs :
          /\ clock + env.elapsed <= MaxClock
          /\ \E data \in {[i \in 1 .. n |-> emits + 1]} :
             \E s \in {emit(Entry, data, env)} :
                 /\ buffer' = s.buffer
                 /\ error_records' = s.error_records
                 /\ stream' = s.stream
                 /\ peer' = s.peer
                 /\ clock' = s.clock
                 /\ last_sent' = IF s.written = <<>> THEN last_sent
                                 ELSE s.written[Len(s.written)]
                 /\ emits' = emits + 1
                 /\ call' = [n |-> emits + 1, data |-> data, now |-> clock,
                             verdict |-> should_retry(error_records, clock),
                             buffer0 |-> buffer, errors0 |-> error_records,
                             last_sent0 |-> last_sent,
                             peer0 |-> peer, stream0 |-> stream,
                             result |-> s.result, trace |-> s.trace,
                             written |-> s.written, appended |-> s.appended]

\* The daemon stops (or the network fails) between two calls.
PeerDown ==
    /\ peer = "up"
    /\ peer' = "down"
    /\ stream' = "broken"
    /\ call' = NoCall
    /\ UNCHANGED <<buffer, error_records, clock, last_sent, emits>>

\* The daemon comes back between two calls.
PeerUp ==
    /\ peer = "down"
    /\ peer' = "up"
    /\ call' = NoCall
    /\ UNCHANGED <<buffer, error_records, stream, clock, last_sent, emits>>

\* Time passes between two calls.
Tick ==
    /\ \E d \in Advance \ {0} :
          /\ clock + d <= MaxClock
          /\ clock' = clock + d
    /\ call' = NoCall
    /\ UNCHANGED <<buffer, error_records, stream, peer, last_sent, emits>>

Next == Emit \/ PeerDown \/ PeerUp \/ Tick

Spec == Init /\ [][Next]_vars

\* ------------------------------------------------- reading a call's record

\* The events of the last call with the given op, in order.
OpsOf(op) == SelectSeq(call.trace, LAMBDA e : e.op = op)

\* The handle_error calls of the last call.
Handled == OpsOf("handle_error")

\* The places in the record where flush_buffer was entered, and for each the
\* place where that flush returned.
FlushStarts == {i \in 1 .. Len(call.trace) : call.trace[i].op = "flush"}

FlushEnd(i) ==
    CHOOSE j \in i .. Len(call.trace) :
        /\ call.trace[j].op = "flush_ret"
        /\ \A k \in i .. (j - 1) : call.trace[k].op # "flush_ret"

\* The stream operations of the flush entered at i: "W+" a write that
\* succeeded, "W-" one that failed, "C+" and "C-" the same for a dial.
IoCode(e) ==
    (IF e.op = "write" THEN "W" ELSE "C") \o (IF e.ok THEN "+" ELSE "-")

FlushIo(i) ==
    LET io == SelectSeq(SubSeq(call.trace, i, FlushEnd(i)),
                        LAMBDA e : e.op \in {"write", "connect"})
    IN  [k \in 1 .. Len(io) |-> IoCode(io[k])]

FlushFailed(i) == ~call.trace[FlushEnd(i)].ok

NonDecreasing(seq) == \A i, j \in 1 .. Len(seq) : i < j => seq[i] <= seq[j]

IsPrefix(p, seq) == Len(p) <= Len(seq) /\ SubSeq(seq, 1, Len(p)) = p

\* The retry verdict at the entry of the last call was Wait.
VerdictWait == call.n > 0 /\ ~call.verdict

\* No dial could succeed during the last call: the peer was down when the
\* call began and still down when it returned.
Unreachable == call.n > 0 /\ call.peer0 = "down" /\ peer = "down"

\* ------------------------------------------------------------------ claims

\* C1: a flush that fails (the first write failed and then the dial or the
\* write after it failed) leaves the buffer exactly as it was when the flush
\* began, and emit returns with that buffer; every successful write is handed
\* the whole buffer of its flush; and over a call the bytes handed to
\* successful writes followed by the bytes still buffered are exactly the
\* bytes buffered before the call followed by the frame if it was appended:
\* no appended byte leaves the buffer except through a successful write.
C1_FailedFlushPreservesBuffer ==
    /\ \A i \in FlushStarts :
          /\ FlushFailed(i) =>
                /\ call.trace[FlushEnd(i)].buf = call.trace[i].buf
                /\ buffer = call.trace[i].buf
                /\ call.result = "Io"
          /\ \A k \in i .. FlushEnd(i) :
                (call.trace[k].op = "write" /\ call.trace[k].ok)
                    => call.trace[k].buf = call.trace[i].buf
    /\ call.n > 0 =>
          call.written \o buffer
              = call.buffer0 \o (IF call.appended THEN call.data ELSE <<>>)

\* C1 witness: a flush whose two writes both failed, with bytes buffered by
\* an earlier call still in the buffer.
C1_Witness ==
    /\ call.result = "Io"
    /\ \E i \in FlushStarts : FlushIo(i) = <<"W-", "C+", "W-">>
    /\ call.buffer0 # <<>>
    /\ buffer = call.buffer0 \o call.data
    /\ call.data # <<>>

\* C2: bytes reach the stream in submission order: the buffer holds its
\* frames oldest first, every buffered byte is of a later frame than the last
\* byte handed to a successful write, and what a call hands to successful
\* writes is a prefix of the earlier buffer followed by the new frame.
C2_SubmissionOrder ==
    /\ NonDecreasing(buffer)
    /\ buffer # <<>> => buffer[1] > last_sent
    /\ NonDecreasing(call.written)
    /\ call.written # <<>> => call.written[1] > call.last_sent0
    /\ IsPrefix(call.written, call.buffer0 \o call.data)

\* C2 witness: one successful write carried an earlier frame and the frame
\* of this call, in that order.
C2_Witness ==
    /\ call.written # <<>>
    /\ call.written[1] < call.n
    /\ call.written[Len(call.written)] = call.n

\* C3: the buffer never holds more than its capacity, neither between calls
\* nor at any moment a call records (the views handed to the error handler
\* included).
C3_BufferBound ==
    /\ Len(buffer) <= Capacity
    /\ \A k \in 1 .. Len(call.trace) : Len(call.trace[k].buf) <= Capacity

\* C3 witness: a frame larger than the capacity was rejected while the
\* buffer was full after a transport failure.
C3_Witness ==
    /\ Len(call.data) > Capacity
    /\ call.result = "TooLargeData"
    /\ Len(buffer) = Capacity
    /\ error_records # <<>>

\* C4: whenever flush_buffer returns Ok the buffer and the error history are
\* empty at that moment, and when the flush was the end of the call they are
\* empty after the call.
C4_FlushOkEmpties ==
    /\ \A i \in FlushStarts :
          ~FlushFailed(i) =>
              /\ call.trace[FlushEnd(i)].buf = <<>>
              /\ call.trace[FlushEnd(i)].hist = <<>>
              /\ FlushEnd(i) = Len(call.trace)
                    => (buffer = <<>> /\ error_records = <<>>)
    /\ (call.n > 0 /\ call.result = "Ok" /\ call.trace # <<>>)
          => (buffer = <<>> /\ error_records = <<>>)

\* C4 witness: a flush that succeeded only after the reconnect, on a sender
\* with errors recorded.
C4_Witness ==
    /\ call.errors0 # <<>>
    /\ call.result = "Ok"
    /\ \E i \in FlushStarts : FlushIo(i) = <<"W-", "C+", "W+">>

\* C5: a flush of a non-empty buffer is one of: a write that succeeds; a
\* failed write and a failed dial; a failed write, a dial and a second write.
\* It fails exactly when its last operation failed; a flush of an empty
\* buffer touches the stream not at all.
C5_ReconnectOnce ==
    \A i \in FlushStarts :
        IF call.trace[i].buf = <<>>
        THEN FlushIo(i) = <<>> /\ ~FlushFailed(i)
        ELSE \/ FlushIo(i) = <<"W+">> /\ ~FlushFailed(i)
             \/ FlushIo(i) = <<"W-", "C-">> /\ FlushFailed(i)
             \/ FlushIo(i) = <<"W-", "C+", "W+">> /\ ~FlushFailed(i)
             \/ FlushIo(i) = <<"W-", "C+", "W-">> /\ FlushFailed(i)

\* C5 witness: the dial succeeded and the second write failed.
C5_Witness ==
    \E i \in FlushStarts : FlushIo(i) = <<"W-", "C+", "W-">> /\ FlushFailed(i)

\* C6 as stated: every Err returned by emit, Io or TooLargeData, follows
\* exactly one handle_error call of that call, carrying the same error kind
\* and the buffer as it was before the failure.
C6_EveryErrHandledOnce ==
    (call.n > 0 /\ call.result # "Ok") =>
        /\ Len(Handled) = 1
        /\ Handled[1].err = call.result
        /\ Handled[1].buf = buffer

\* What the code does where C6 fails: an Err(Io) returned by emit follows
\* exactly one handle_error call of that call, carrying Io and the buffer as
\* it was when the failing flush began (which is the buffer after the call);
\* an Err(TooLargeData) is returned without any handle_error call.
C6_IoHandledOnceTooLargeUnhandled ==
    /\ (call.n > 0 /\ call.result = "Io") =>
          /\ Len(Handled) = 1
          /\ Handled[1].err = "Io"
          /\ Handled[1].buf = buffer
          /\ \E i \in FlushStarts :
                FlushFailed(i) /\ Handled[1].buf = call.trace[i].buf
    /\ (call.n > 0 /\ call.result = "TooLargeData") => Handled = <<>>

\* TooLargeData returned after the flush before the append ran and
\* succeeded, with no handler call.
C6_TooLargeUnhandled ==
    /\ call.result = "TooLargeData"
    /\ call.buffer0 # <<>>
    /\ call.written = call.buffer0
    /\ Handled = <<>>

\* The case of C7: data is buffered, the new frame does not fit in what is
\* left, the verdict is Ready and the transport is unreachable.
C7_Case ==
    /\ call.n > 0
    /\ call.buffer0 # <<>>
    /\ Len(call.data) > Capacity - Len(call.buffer0)
    /\ call.verdict
    /\ Unreachable

\* C7 as stated: in that case the flush fails, the append is tried and
\* rejected, emit returns TooLargeData, the handler is called once for Io and
\* once for TooLargeData, and the buffer is as before.
C7_OverflowReturnsTooLarge ==
    C7_Case =>
        /\ \E i \in FlushStarts : FlushFailed(i)
        /\ call.result = "TooLargeData"
        /\ Len(Handled) = 2
        /\ Handled[1].err = "Io"
        /\ Handled[2].err = "TooLargeData"
        /\ buffer = call.buffer0

\* C7 as amended: in that case emit attempts one flush, the flush fails, and
\* emit returns that Io error at once: no append is attempted, the handler is
\* called exactly once, for Io, and the buffer holds exactly the bytes
\* buffered before.
C7_OverflowReturnsIo ==
    C7_Case =>
        /\ Cardinality(FlushStarts) = 1
        /\ \A i \in FlushStarts : FlushFailed(i)
        /\ call.result = "Io"
        /\ ~call.appended
        /\ Len(Handled) = 1
        /\ Handled[1].err = "Io"
        /\ Handled[1].buf = call.buffer0
        /\ buffer = call.buffer0

\* C7 witness: the case, with a frame that would fit an empty buffer.
C7_Witness ==
    /\ C7_Case
    /\ Len(call.data) <= Capacity
    /\ call.result = "Io"

\* C8 as stated: whenever emit returns TooLargeData the buffer is what it
\* was before the call.
C8_TooLargeLeavesBuffer ==
    (call.n > 0 /\ call.result = "TooLargeData") => buffer = call.buffer0

\* C8 as amended: whenever emit returns TooLargeData the frame is not
\* appended, and the buffer is what it was before the call when the verdict
\* was Wait (nothing is written), while under a Ready verdict the flush
\* before the append has run and succeeded: the buffer is empty and exactly
\* the bytes buffered before were handed to a successful write.
C8_TooLargeKeepsOrFlushes ==
    (call.n > 0 /\ call.result = "TooLargeData") =>
        /\ ~call.appended
        /\ Len(call.data) > Capacity - Len(call.buffer0)
        /\ IF call.verdict
           THEN buffer = <<>> /\ call.written = call.buffer0
           ELSE buffer = call.buffer0 /\ call.trace = <<>>

\* C8 witness: TooLargeData under a Wait verdict, the buffer kept.
C8_Witness ==
    /\ call.result = "TooLargeData"
    /\ VerdictWait
    /\ buffer = call.buffer0
    /\ buffer # <<>>

\* C9: when the verdict at the entry of emit is Wait and the frame fits in
\* what is left of the buffer, emit appends the frame at the end of the
\* buffer, makes no stream write and no dial, calls no handler, leaves the
\* error history as it was and returns Ok.
C9_WaitGate ==
    (VerdictWait /\ Len(call.data) <= Capacity - Len(call.buffer0)) =>
        /\ buffer = call.buffer0 \o call.data
        /\ call.trace = <<>>
        /\ call.written = <<>>
        /\ error_records = call.errors0
        /\ call.result = "Ok"

\* C9 witness: a non-empty frame buffered behind earlier bytes under Wait.
C9_Witness ==
    /\ VerdictWait
    /\ call.data # <<>>
    /\ call.buffer0 # <<>>
    /\ buffer = call.buffer0 \o call.data

\* The case of C10: no error was recorded when the call began, and a flush
\* of the call had its write fail and its dial fail.
C10_Case ==
    /\ call.n > 0
    /\ call.errors0 = <<>>
    /\ \E i \in FlushStarts : FlushIo(i) = <<"W-", "C-">>

\* C10: in that case emit returns Err(Io), record_error was called exactly
\* once, the history holds exactly one entry, and the handler was called with
\* the Io error and the very timestamp that was recorded.
C10_ReconnectOnceFailure ==
    C10_Case =>
        /\ call.result = "Io"
        /\ Len(OpsOf("record_error")) = 1
        /\ Len(error_records) = 1
        /\ Len(Handled) = 1
        /\ Handled[1].err = "Io"
        /\ Handled[1].at = error_records[1]
        /\ Handled[1].at = OpsOf("record_error")[1].at

\* C10 witness: the case, where the recorded timestamp is later than the
\* clock reading at the entry of emit.
C10_Witness ==
    /\ C10_Case
    /\ call.result = "Io"
    /\ error_records # <<>>
    /\ error_records[1] > call.now

\* ------------------------------------------------- the retry manager alone

\* ConstantDelay driven through its RetryManager methods (sender.rs:53-74)
\* without a sender around it.  `call` holds the method call that has just
\* returned: its name, its argument, what should_retry answered, and the
\* error history before it.
RetryCall(op, now, verdict, before) ==
    [op |-> op, now |-> now, verdict |-> verdict, before |-> before]

\* ConstantDelay::new (sender.rs:45-51)
InitRetry ==
    /\ buffer = <<>>
    /\ error_records = <<>>
    /\ stream = "open"
    /\ peer = "up"
    /\ clock = 0
    /\ last_sent = 0
    /\ emits = 0
    /\ call = RetryCall("new", 0, TRUE, <<>>)

\* record_error(now) with the reading of the monotonic clock
RecordError ==
    /\ error_records' = record_error(error_records, clock)
    /\ call' = RetryCall("record_error", clock, TRUE, error_records)
    /\ UNCHANGED <<buffer, stream, peer, clock, last_sent, emits>>

\* clear_errors()
ClearErrors ==
    /\ error_records' = clear_errors(error_records)
    /\ call' = RetryCall("clear_errors", clock, TRUE, error_records)
    /\ UNCHANGED <<buffer, stream, peer, clock, last_sent, emits>>

\* should_retry(now) for a now that is the clock's reading or later
ShouldRetry ==
    /\ \E d \in Advance :
          call' = RetryCall("should_retry", clock + d,
                            should_retry(error_records, clock + d),
                            error_records)
    /\ UNCHANGED <<buffer, error_records, stream, peer, clock, last_sent, emits>>

\* The retry delay passes.
RetryTick ==
    /\ clock + wait <= RetryMaxClock
    /\ clock' = clock + wait
    /\ call' = RetryCall("tick", clock + wait, TRUE, <<>>)
    /\ UNCHANGED <<buffer, error_records, stream, peer, last_sent, emits>>

NextRetry == RecordError \/ ClearErrors \/ ShouldRetry \/ RetryTick

SpecRetry == InitRetry /\ [][NextRetry]_vars

\* The smallest timestamp of a non-empty history: its oldest error.
Oldest(records) ==
    CHOOSE t \in {records[i] : i \in 1 .. Len(records)} :
        \A i \in 1 .. Len(records) : t <= records[i]

C12_GateOnLastError ==
    call.op = "should_retry" =>
        IF call.before = <<>>
        THEN call.verdict
        ELSE call.verdict <=> (call.now - call.before[1] >= wait)

\* C13: the history never holds more than max_errors timestamps; record_error
\* puts the new timestamp at the front and keeps the earlier ones in order
\* behind it, dropping exactly the one at the back, the oldest, when the
\* history was full; clear_errors empties it.
C13_HistoryBounded ==
    /\ Len(error_records) <= 100
    /\ Len(error_records) <= max_errors
    /\ call.op = "record_error" =>
          /\ error_records[1] = call.now
          /\ IF Len(call.before) < max_errors
             THEN error_records = <<call.now>> \o call.before
             ELSE error_records
                      = <<call.now>> \o SubSeq(call.before, 1, max_errors - 1)
    /\ call.op = "clear_errors" => error_records = <<>>

\* C13 witness: record_error on a full history whose oldest timestamp differs
\* from the others: that one is gone, and the history is full again.
C13_Witness ==
    /\ call.op = "record_error"
    /\ Len(call.before) = max_errors
    /\ call.before[max_errors] < call.before[max_errors - 1]
    /\ Len(error_records) = max_errors
    /\ error_records[max_errors] = call.before[max_errors - 1]
    /\ error_records[1] = call.now

\* The history at the entry of the last emit call was longer than the cap of
\* the stricter policy: the verdict the claim calls Exhausted.
C14_Exhausted == call.n > 0 /\ Len(call.errors0) > StrictMaxErrors

C15_SingleClockRead ==
    (call.n > 0 /\ call.result = "Io") =>
        /\ error_records[1] = call.now
        /\ Handled[1].at = call.now

\* C15 as amended: the reading taken at the entry of emit decides every retry
\* verdict of the call (after the first flush the history is empty or the
\* call has returned, so the verdict at entry stands for the whole call);
\* when a flush fails, flush_buffer reads the clock again after the stream
\* operations, and that second reading, which is the clock at the return of
\* the call and never earlier than the first, is the timestamp recorded and
\* the one passed to the handler.
C15_SecondClockRead ==
    /\ call.n > 0 =>
          /\ call.verdict = should_retry(call.errors0, call.now)
          /\ ~call.verdict => call.trace = <<>>
          /\ \A i \in FlushStarts :
                call.trace[i].hist = <<>> \/ call.trace[i].hist = call.errors0
    /\ (call.n > 0 /\ call.result = "Io") =>
          /\ Len(Handled) = 1
          /\ Handled[1].at = clock
          /\ error_records[1] = clock
          /\ \A i \in FlushStarts :
                FlushFailed(i) => error_records = <<clock>> \o call.trace[i].hist
          /\ clock >= call.now
          /\ \A k \in 1 .. Len(call.trace) :
                call.trace[k].op \in {"write", "connect"}
                    => call.trace[k].at <= Handled[1].at

\* C15 witness: a flush that failed after blocking for a while: the recorded
\* timestamp and the handler's are the same and later than the reading at
\* the entry of emit, on a history that already held an error.
C15_Witness ==
    /\ call.n > 0
    /\ call.result = "Io"
    /\ call.errors0 # <<>>
    /\ Handled[1].at = error_records[1]
    /\ Handled[1].at > call.now

\* ------------------------------------------- the MessagePack frame (logger)

\* A byte is 0 .. 255.  An i64 is held as four 16-bit limbs <<l3, l2, l1, l0>>,
\* most significant first, of which l3 carries the sign (-32768 .. 32767) and
\* the others are 0 .. 65535: the value is l3*2^48 + l2*2^32 + l1*2^16 + l0.
I64(i) ==
    <<IF i < 0 THEN -1 ELSE 0, IF i < 0 THEN 65535 ELSE 0,
      (i \div 65536) % 65536, i % 65536>>

\* `x as u8`: the low eight bits
as_u8(x) == x % 256

\* `x >> k` on a non-negative usize
shr(x, k) == x \div (2 ^ k)

\* `(i >> k) as u8` on an i64, k a multiple of 8: the arithmetic shift keeps
\* the sign, the cast keeps the low eight bits.
i64_shr_as_u8(i, k) == as_u8(i[4 - (k \div 16)] \div (2 ^ (k % 16)))

\* `a | b` on non-negative integers
RECURSIVE bitor(_, _)
bitor(a, b) ==
    IF a = 0 THEN b
    ELSE IF b = 0 THEN a
    ELSE (IF a % 2 = 1 \/ b % 2 = 1 THEN 1 ELSE 0)
             + 2 * bitor(a \div 2, b \div 2)

\* logger.rs:138-148 (0xd3 = 211)
write_i64_little_endian(i, out) ==
    out \o <<211>>
        \o [k \in 1 .. 8 |-> i64_shr_as_u8(i, 8 * (k - 1))]

write_i64(i, out) ==
    out \o <<211, i64_shr_as_u8(i, 56), i64_shr_as_u8(i, 48),
             i64_shr_as_u8(i, 40), i64_shr_as_u8(i, 32),
             i64_shr_as_u8(i, 24), i64_shr_as_u8(i, 16),
             i64_shr_as_u8(i, 8), i64_shr_as_u8(i, 0)>>

\* logger.rs:150-173 (0xa0 = 160, 0xd9 = 217, 0xda = 218, 0xdb = 219)
write_string(s, out) ==
    LET len == Len(s)
        head == IF len < 32 THEN <<as_u8(bitor(160, len))>>
                ELSE IF len < 256 THEN <<as_u8(217), as_u8(len)>>
                ELSE IF len < 65536
                THEN <<as_u8(218), as_u8(shr(len, 8)), as_u8(len)>>
                ELSE <<as_u8(219), as_u8(shr(len, 24)), as_u8(shr(len, 16)),
                       as_u8(shr(len, 8)), as_u8(len)>>
    IN  out \o head \o s

\* logger.rs:36-52: the buffer log_msgpack_with_timestamp hands to emit, for
\* a tag, the seconds of the timestamp, and the bytes rmp_serde::to_vec gave
\* for the record (0x93 = 147)
log_msgpack_frame(tag, seconds, pack) ==
    write_i64(seconds, write_string(tag, <<147>>)) \o pack

\* The tag lengths, the times and the encoded records the logger is given.
TagLens == {0, 1, 31, 32, 255, 256, 65535, 65536}

TagOf(len) == [k \in 1 .. len |-> 97 + (k % 26)]

Times ==
    {I64(0), I64(1), I64(-1), I64(1500564758), I64(-1500564758),
     <<-32768, 0, 0, 0>>, <<32767, 65535, 65535, 65535>>,
     <<291, 17767, 35243, 52719>>}

Packs == {<<128>>, <<129, 161, 97, 1>>}

LogCall(op, tag, seconds, pack, frame, result) ==
    [op |-> op, tag |-> tag, seconds |-> seconds, pack |-> pack,
     frame |-> frame, result |-> result]

\* A fresh sender, and the arguments of the log call to come.
InitFrame ==
    /\ buffer = <<>>
    /\ error_records = <<>>
    /\ stream = "open"
    /\ peer = "up"
    /\ clock = 0
    /\ last_sent = 0
    /\ emits = 0
    /\ \E len \in TagLens, seconds \in Times, pack \in Packs :
          call = LogCall("input", TagOf(len), seconds, pack, <<>>, "Ok")

\* One call of log_msgpack_with_timestamp: the frame is built and handed to
\* the sender's emit.
LogMsgpack ==
    /\ call.op = "input"
    /\ \E env \in Envs :
       \E frame \in {log_msgpack_frame(call.tag, call.seconds, call.pack)} :
       \E s \in {emit(Entry, frame, env)} :
           /\ buffer' = s.buffer
           /\ error_records' = s.error_records
           /\ stream' = s.stream
           /\ peer' = s.peer
           /\ clock' = s.clock
           /\ last_sent' = IF s.written = <<>> THEN last_sent
                           ELSE s.written[Len(s.written)]
           /\ emits' = emits + 1
           /\ call' = LogCall("emit", call.tag, call.seconds, call.pack,
                              frame, s.result)

NextFrame == LogMsgpack

SpecFrame == InitFrame /\ [][NextFrame]_vars

\* The length of the string header MessagePack prescribes for a length L.
StrHeaderLen(L) ==
    IF L < 32 THEN 1 ELSE IF L < 256 THEN 2 ELSE IF L < 65536 THEN 3 ELSE 5

\* The number a sequence of bytes spells, most significant byte first.
RECURSIVE BigEndian(_)
BigEndian(bytes) ==
    IF bytes = <<>> THEN 0
    ELSE 256 * BigEndian(SubSeq(bytes, 1, Len(bytes) - 1)) + bytes[Len(bytes)]

\* The 16-bit two's-complement number two bytes spell.
Signed16(hi, lo) ==
    IF hi >= 128 THEN 256 * hi + lo - 65536 ELSE 256 * hi + lo

\* The i64 that eight bytes spell in big-endian two's complement.
I64OfBigEndian(b) ==
    <<Signed16(b[1], b[2]), BigEndian(SubSeq(b, 3, 4)),
      BigEndian(SubSeq(b, 5, 6)), BigEndian(SubSeq(b, 7, 8))>>

\* The string headers at the boundary lengths.
BoundaryHeaders ==
    [L \in TagLens |->
        CASE L = 0 -> <<160>>
          [] L = 1 -> <<161>>
          [] L = 31 -> <<191>>
          [] L = 32 -> <<217, 32>>
          [] L = 255 -> <<217, 255>>
          [] L = 256 -> <<218, 1, 0>>
          [] L = 65535 -> <<218, 255, 255>>
          [] L = 65536 -> <<219, 0, 1, 0, 0>>]

\* C16: the frame log_msgpack_with_timestamp hands to emit is the byte 0x93,
\* the string header for the tag's length L (0xA0 | L below 32; 0xD9 and one
\* length byte below 256; 0xDA and two big-endian length bytes below 65536;
\* else 0xDB and four big-endian length bytes), the L bytes of the tag, the
\* byte 0xD3, the eight bytes of the time in big-endian two's complement, and
\* the bytes of the encoded record, and nothing else; at the boundary lengths
\* the headers are A0, A1, BF, D9 20, D9 FF, DA 01 00, DA FF FF, DB 00 01 00 00.
C16_MsgpackFrame ==
    call.op = "emit" =>
        LET f == call.frame
            L == Len(call.tag)
            h == StrHeaderLen(L)
            head == SubSeq(f, 2, 1 + h)
        IN  /\ \A k \in 1 .. Len(f) : f[k] \in 0 .. 255
            /\ Len(f) = 1 + h + L + 9 + Len(call.pack)
            /\ f[1] = 147
            /\ head[1] = (CASE h = 1 -> 160 + L
                            [] h = 2 -> 217
                            [] h = 3 -> 218
                            [] h = 5 -> 219)
            /\ h > 1 => BigEndian(Tail(head)) = L
            /\ L \in TagLens => head = BoundaryHeaders[L]
            /\ SubSeq(f, 2 + h, 1 + h + L) = call.tag
            /\ f[2 + h + L] = 211
            /\ I64OfBigEndian(SubSeq(f, 3 + h + L, 10 + h + L)) = call.seconds
            /\ SubSeq(f, 11 + h + L, Len(f)) = call.pack

\* C16 witness: a tag of 256 bytes and the time -1: the header is DA 01 00
\* and the time field is D3 followed by eight FF bytes.
C16_Witness ==
    /\ call.op = "emit"
    /\ Len(call.tag) = 256
    /\ call.seconds = I64(-1)
    /\ SubSeq(call.frame, 1, 4) = <<147, 218, 1, 0>>
    /\ SubSeq(call.frame, 261, 269)
           = <<211, 255, 255, 255, 255, 255, 255, 255, 255>>
    /\ Len(call.frame) = 269 + Len(call.pack)

\* ------------------------------------------------- recovery after an outage

\* The sender under a caller that keeps calling emit with frames that fit the
\* capacity, while the clock keeps advancing.  The transport may fail during
\* the first LiveOutageCalls calls; after them the peer comes up and stays
\* up.  The clock may then run 2 * wait past MaxClock, so that the retry
\* delay can pass after the last error of the outage.
InOutage == emits < LiveOutageCalls

\* One call of Sender::emit with a frame of n bytes, returning by `last`.
EmitCall(n, env, last) ==
    /\ clock + env.elapsed <= last
    /\ \E data \in {[i \in 1 .. n |-> emits + 1]} :
       \E s \in {emit(Entry, data, env)} :
           /\ buffer' = s.buffer
           /\ error_records' = s.error_records
           /\ stream' = s.stream
           /\ peer' = s.peer
           /\ clock' = s.clock
           /\ last_sent' = IF s.written = <<>> THEN last_sent
                           ELSE s.written[Len(s.written)]
           /\ emits' = IF InOutage THEN emits + 1 ELSE emits
           /\ call' = [n |-> emits + 1, data |-> data, now |-> clock,
                       verdict |-> should_retry(error_records, clock),
                       buffer0 |-> buffer, errors0 |-> error_records,
                       last_sent0 |-> last_sent,
                       peer0 |-> peer, stream0 |-> stream,
                       result |-> s.result, trace |-> s.trace,
                       written |-> s.written, appended |-> s.appended]

\* A call during the outage: the peer may change state under it.
EmitOutage ==
    /\ InOutage
    /\ \E n \in 0 .. Capacity, env \in Envs : EmitCall(n, env, MaxClock)

\* A call after the outage: the peer is up and stays up during the call.
EmitReachable ==
    /\ ~InOutage
    /\ peer = "up"
    /\ \E n \in 0 .. Capacity, elapsed \in Advance :
          EmitCall(n, [at |-> 0, elapsed |-> elapsed], MaxClock + 2 * wait)

PeerDownOutage == InOutage /\ PeerDown

TickLive ==
    /\ \E d \in Advance \ {0} :
          /\ clock + d <= (IF InOutage THEN MaxClock ELSE MaxClock + 2 * wait)
          /\ clock' = clock + d
    /\ call' = NoCall
    /\ UNCHANGED <<buffer, error_records, stream, peer, last_sent, emits>>

NextLive == EmitOutage \/ EmitReachable \/ PeerDownOutage \/ PeerUp \/ TickLive

\* A step that is a call of emit during the outage, and one after it, told
\* by the record the call leaves.
EmitOutageStep == InOutage /\ call'.n > 0

EmitReachableStep == ~InOutage /\ call'.n > 0

\* The caller keeps calling, the clock keeps advancing, the peer comes back.
\* The fairness of the two emit actions is written out as "infinitely often
\* disabled or infinitely often taken": EmitOutage is enabled exactly when
\* InOutage, EmitReachable exactly when the outage is over and the peer is
\* up, and among the steps of NextLive theirs are the ones that leave a call
\* record.
SpecLive ==
    /\ Init
    /\ [][NextLive]_vars
    /\ WF_vars(PeerUp)
    /\ WF_vars(TickLive)
    /\ ([]<>(~InOutage) \/ []<><<EmitOutageStep>>_vars)
    /\ ([]<>(InOutage \/ peer # "up") \/ []<><<EmitReachableStep>>_vars)

\* The sender holds unsent bytes and recorded errors.
Degraded == error_records # <<>> /\ buffer # <<>>

\* An emit call has just flushed successfully: bytes went out, and the
\* buffer and the error history are empty.
Recovered ==
    /\ call.n > 0
    /\ call.result = "Ok"
    /\ call.written # <<>>
    /\ buffer = <<>>
    /\ error_records = <<>>

\* C17: a Degraded sender whose transport becomes and stays reachable, whose
\* caller keeps calling emit with frames no larger than the capacity and
\* whose clock keeps advancing, eventually has an emit call flush
\* successfully, leaving the buffer and the error history empty.
C17_RecoveryLiveness == Degraded ~> Recovered

\* C17 witness: after the outage a call entered Degraded and flushed the
\* bytes buffered during the outage over a stream it had to reconnect.
C17_Witness ==
    /\ ~InOutage
    /\ Recovered
    /\ call.errors0 # <<>>
    /\ call.buffer0 # <<>>
    /\ call.stream0 = "broken"
    /\ call.now > MaxClock

\* C18 as stated: during an outage, after a failed flush no emit call
\* attempts another stream write until at least wait has elapsed since that
\* most recent failure (the front of the history); until then frames are only
\* buffered.
C18_WritesWaitApart ==
    (Unreachable /\ call.errors0 # <<>> /\ call.now - call.errors0[1] < wait) =>
        /\ OpsOf("write") = <<>>
        /\ call.trace = <<>>
        /\ error_records = call.errors0

\* What the code does where C18 fails: an emit call entered with errors
\* recorded attempts a stream write only when at least wait has elapsed since
\* the oldest retained failure (the back of the history).
C18_WritesWaitAfterOldest ==
    (call.n > 0 /\ call.errors0 # <<>> /\ OpsOf("write") # <<>>) =>
        call.now - call.errors0[Len(call.errors0)] >= wait

\* A call entered less than wait after the most recent failed flush that
\* wrote to the stream, failed again and recorded a third error.
C18_EarlyWrite ==
    /\ Unreachable
    /\ Len(call.errors0) = 2
    /\ call.now - call.errors0[1] < wait
    /\ OpsOf("write") # <<>>
    /\ call.result = "Io"
    /\ Len(error_records) = 3

\* The flush before the append ran in the last call: the frame did not fit in
\* what was left of the buffer and the verdict was Ready.
FlushedBeforeAppend ==
    /\ call.n > 0
    /\ Len(call.buffer0) + Len(call.data) > Capacity
    /\ call.verdict

\* C19: when emit returns Err(Io) the frame is in the buffer exactly when the
\* failure came from the flush after the append.  If the flush before the
\* append fails, emit returns Io at once: it is the only flush of the call,
\* the frame is not appended and the buffer is as before.  Otherwise the
\* frame has been appended and stays at the end of the buffer, behind the
\* bytes that were there when the failing flush began, and that whole buffer
\* is what the handler is shown; a later call that writes successfully writes
\* everything buffered before it, the retained frame included.
C19_IoLeavesFrameIffAppended ==
    /\ (call.n > 0 /\ call.written # <<>>) =>
          IsPrefix(call.buffer0, call.written)
    /\ (call.n > 0 /\ call.result = "Io") =>
        LET last == CHOOSE i \in FlushStarts : FlushFailed(i)
        IN  /\ \A i \in FlushStarts : FlushFailed(i) => i = last
            /\ FlushEnd(last) = Len(call.trace)
            /\ IF FlushedBeforeAppend /\ last = 1
               THEN /\ ~call.appended
                    /\ Cardinality(FlushStarts) = 1
                    /\ buffer = call.buffer0
                    /\ call.written = <<>>
               ELSE /\ call.appended
                    /\ Cardinality(FlushStarts)
                           = (IF FlushedBeforeAppend THEN 2 ELSE 1)
                    /\ buffer = (IF FlushedBeforeAppend THEN <<>>
                                 ELSE call.buffer0) \o call.data
                    /\ call.trace[last].buf = buffer
                    /\ Handled[1].buf = buffer

\* C19 witness: the flush before the append succeeded, the one after it
\* failed, and the frame alone is left in the buffer.
C19_Witness ==
    /\ call.result = "Io"
    /\ FlushedBeforeAppend
    /\ Cardinality(FlushStarts) = 2
    /\ call.written = call.buffer0
    /\ call.data # <<>>
    /\ buffer = call.data

\* C19, the other case: the flush before the append failed and the frame,
\* which would have fitted an empty buffer, was dropped.
C19_FrameNotAppended ==
    /\ call.result = "Io"
    /\ FlushedBeforeAppend
    /\ ~call.appended
    /\ call.data # <<>>
    /\ Len(call.data) <= Capacity
    /\ buffer = call.buffer0

\* C20: whenever an error is recorded the buffer is not empty, between calls
\* and at every flush_buffer entry and return a call records: errors are
\* recorded only by the failed flush of a non-empty buffer, which keeps the
\* buffer, and the buffer is emptied only by a successful flush, which clears
\* the history.
C20_ErrorsImplyBuffered ==
    /\ error_records # <<>> => buffer # <<>>
    /\ call.n > 0 => (call.errors0 # <<>> => call.buffer0 # <<>>)
    /\ \A k \in 1 .. Len(call.trace) :
          call.trace[k].hist # <<>> => call.trace[k].buf # <<>>
    /\ \A k \in 1 .. Len(call.trace) :
          call.trace[k].op = "record_error" =>
              /\ call.trace[k].buf # <<>>
              /\ buffer = call.trace[k].buf

\* C20 witness: a second error recorded on a sender that held one, the bytes
\* of two calls still buffered.
C20_Witness ==
    /\ Len(error_records) >= 2
    /\ call.result = "Io"
    /\ call.buffer0 # <<>>
    /\ call.data # <<>>
    /\ buffer = call.buffer0 \o call.data

====
